---- MODULE Spec2Model ----
(***************************************************************************)
(* Model of app.py: a Streamlit script that loads an account -> category   *)
(* mapping, validates an uploaded trial balance, lets the user map the     *)
(* accounts in a form, and derives an income statement, a balance sheet    *)
(* and a category -> first-row cross-reference.                            *)
(*                                                                         *)
(* Every user event re-runs the whole script, so each action below is one  *)
(* complete script run.  Amounts are exact fixed-point numbers counted in  *)
(* units of 1e-6, so the tolerance 1e-6 of the two balance checks is 1.    *)
(* Account names are strings and Debit/Credit cells are numbers.           *)
(***************************************************************************)
EXTENDS Integers, Sequences, FiniteSets, TLC

VARIABLES
    mapping_file,                \* mapping.json on disk
    session,                     \* "none" | "live" | "crashed"
    chart_mapping,               \* st.session_state.chart_mapping
    uploaded_file,               \* the file uploader's current value
    schema_error,                \* st.error of line 157 shown in the last run
    validated,                   \* lines 159-164 ran in the last run
    total_debits,
    total_credits,
    dc_warning,                  \* st.warning of line 162 shown in the last run
    submitted,                   \* form_submit_button "Save Mapping" returned True
    generate_clicked,            \* button "Generate Financial Statements" returned True
    trial_df,                    \* ledger with Category and Amount columns
    income_statement_df,
    balance_sheet_df,
    bs_balanced,                 \* st.success of line 232 shown in the last run
    category_first_account_map,
    excel_file                   \* the workbook was built and offered for download

vars == <<mapping_file, session, chart_mapping, uploaded_file, schema_error,
          validated, total_debits, total_credits, dc_warning, submitted,
          generate_clicked, trial_df, income_statement_df, balance_sheet_df,
          bs_balanced, category_first_account_map, excel_file>>

-----------------------------------------------------------------------------
(* Bounds and input sets *)

MaxRows == 3

AccountNames == {"A", "B"}

\* <<Debit, Credit>> cells of one ledger row, in units of 1e-6
AmountCells == {<<0, 1>>, <<3, 1>>}

LedgerRows == [account : AccountNames, debit : {c[1] : c \in AmountCells},
               credit : {c[2] : c \in AmountCells}]

RowChoices == {r \in LedgerRows : <<r.debit, r.credit>> \in AmountCells}

RECURSIVE SeqsUpTo(_, _)
SeqsUpTo(S, n) ==
    IF n = 0 THEN {<< >>}
    ELSE LET shorter == SeqsUpTo(S, n - 1)
         IN  shorter \cup {Append(s, x) : s \in {t \in shorter : Len(t) = n - 1}, x \in S}

Ledgers == SeqsUpTo(RowChoices, MaxRows)

GoodColumns == {{"Account Name", "Debit", "Credit"}}

BadColumns == {{"Account Name", "Debit"},
               {"account name", "Debit", "Credit"},
               {"Debit", "Credit", "Notes"}}

\* files the user can upload: well-formed tables of up to MaxRows rows, and
\* tables that lack a required column (their rows are never looked at)
UploadableFiles ==
    {[columns |-> cs, rows |-> l] : cs \in GoodColumns, l \in Ledgers}
    \cup {[columns |-> cs, rows |-> l] : cs \in BadColumns,
                                         l \in {l2 \in Ledgers : Len(l2) <= 1}}

NoFile == [columns |-> {}, rows |-> << >>]

EmptyMap == [a \in {} |-> ""]

-----------------------------------------------------------------------------
(* Program constants *)

categories == <<"Current Assets", "Long-term Assets", "Current Liabilities",
                "Long-term Liabilities", "Equity", "Revenue",
                "Operating Expenses", "Non-Operating Expenses">>

CategorySet == {categories[i] : i \in DOMAIN categories}

required_columns == {"Account Name", "Debit", "Credit"}

\* tolerance of the debit/credit check, 1e-6
DC_EPS == 1

\* tolerance of the balance-sheet check, 1e-6
BS_EPS == 1

\* the value pandas gives a row whose account is not a key of the mapping
NaN == "NaN"

Abs(x) == IF x < 0 THEN -x ELSE x

-----------------------------------------------------------------------------
(* Mapping store *)

\* contents mapping.json can have before the first session
StoredMappings ==
    { EmptyMap,
      ("A" :> "Revenue"),
      ("A" :> "Bogus"),
      ("A" :> "Current Liabilities" @@ "B" :> "Non-Operating Expenses") }

InitialFiles ==
    {[exists |-> FALSE, readable |-> FALSE, content |-> EmptyMap],
     [exists |-> TRUE, readable |-> FALSE, content |-> EmptyMap]}
    \cup {[exists |-> TRUE, readable |-> TRUE, content |-> m] : m \in StoredMappings}

\* json.load raises on a file that is not valid JSON
LoadRaises(file) == file.exists /\ ~file.readable

LoadMapping(file) == IF file.exists THEN file.content ELSE EmptyMap

save_mappings(m) == [exists |-> TRUE, readable |-> TRUE, content |-> m]

FileAfterRunAutoSave(file, m, sub) == save_mappings(m)

\* lines 180-181: the file is written only when the form was submitted
FileAfterRun(file, m, sub) == IF sub THEN save_mappings(m) ELSE file

-----------------------------------------------------------------------------
(* Validation *)

SchemaOKNameOnly(columns) == "Account Name" \in columns

SchemaOK(columns) == required_columns \subseteq columns

RECURSIVE SumDebit(_)
SumDebit(rows) == IF rows = << >> THEN 0 ELSE Head(rows).debit + SumDebit(Tail(rows))

RECURSIVE SumCredit(_)
SumCredit(rows) == IF rows = << >> THEN 0 ELSE Head(rows).credit + SumCredit(Tail(rows))

DebitCreditMismatchGeq(td, tc) == Abs(td - tc) >= DC_EPS

DebitCreditMismatch(td, tc) == Abs(td - tc) > DC_EPS

-----------------------------------------------------------------------------
(* Mapping form *)

Get(m, key, default) == IF key \in DOMAIN m THEN m[key] ELSE default

IndexOf(cat) == CHOOSE i \in DOMAIN categories : categories[i] = cat

DefaultCatSecond(m, account) == Get(m, account, categories[2])

\* line 175
DefaultCat(m, account) == Get(m, account, categories[1])

SelectboxKeepLabel(default_cat, sel, account) ==
    IF account \in DOMAIN sel THEN sel[account] ELSE default_cat

\* line 176: the widget returns the user's choice, or the option at `index`
Selectbox(default_cat, sel, account) ==
    IF account \in DOMAIN sel THEN sel[account]
    ELSE categories[IF default_cat \in CategorySet THEN IndexOf(default_cat) ELSE 1]

account_names(rows) == {rows[i].account : i \in DOMAIN rows}

\* lines 174-177: every account of the ledger gets the widget's value
mapping_form(m, rows, sel) ==
    [a \in DOMAIN m \cup account_names(rows) |->
        IF a \in account_names(rows) THEN Selectbox(DefaultCat(m, a), sel, a)
        ELSE m[a]]

\* what the user can submit with the form: the widgets as shown, or one changed
Selections(rows) ==
    {EmptyMap} \cup {(a :> c) : a \in account_names(rows), c \in CategorySet}

-----------------------------------------------------------------------------
(* Aggregation *)

AmountSum(row) == row.debit + row.credit

\* line 186
Amount(row) == row.debit - row.credit

\* lines 185-186
Classify(rows, m) ==
    [i \in DOMAIN rows |->
        [account |-> rows[i].account, debit |-> rows[i].debit,
         credit |-> rows[i].credit,
         Category |-> Get(m, rows[i].account, NaN),
         Amount |-> Amount(rows[i])]]

RECURSIVE GroupSum(_, _)
GroupSum(df, cat) ==
    IF df = << >> THEN 0
    ELSE (IF Head(df).Category = cat THEN Head(df).Amount ELSE 0) + GroupSum(Tail(df), cat)

\* line 188: groupby drops the rows whose key is NaN
cat_sums(df) ==
    [c \in {df[i].Category : i \in DOMAIN df} \ {NaN} |-> GroupSum(df, c)]

NetIncomeNoParens(rev, op, nonop) == rev - op + nonop

\* lines 203-204
NetIncome(rev, op, nonop) == rev - (op + nonop)

\* lines 200-204, 237-240
IncomeStatement(sums) ==
    LET total_revenue == Get(sums, "Revenue", 0)
        total_op_exp == Get(sums, "Operating Expenses", 0)
        total_non_op_exp == Get(sums, "Non-Operating Expenses", 0)
    IN  << [Description |-> "Revenue", Amount |-> total_revenue],
           [Description |-> "Operating Expenses", Amount |-> total_op_exp],
           [Description |-> "Non-Operating Expenses", Amount |-> total_non_op_exp],
           [Description |-> "Net Income",
            Amount |-> NetIncome(total_revenue, total_op_exp, total_non_op_exp)] >>

\* lines 191-198, 242-247
BalanceSheet(sums) ==
    LET total_current_assets == Get(sums, "Current Assets", 0)
        total_long_assets == Get(sums, "Long-term Assets", 0)
        total_assets == total_current_assets + total_long_assets
        total_current_liab == Get(sums, "Current Liabilities", 0)
        total_long_liab == Get(sums, "Long-term Liabilities", 0)
        total_liabilities == total_current_liab + total_long_liab
        total_equity == Get(sums, "Equity", 0)
    IN  << [Description |-> "Current Assets", Amount |-> total_current_assets],
           [Description |-> "Long-term Assets", Amount |-> total_long_assets],
           [Description |-> "Total Assets", Amount |-> total_assets],
           [Description |-> "Current Liabilities", Amount |-> total_current_liab],
           [Description |-> "Long-term Liabilities", Amount |-> total_long_liab],
           [Description |-> "Equity", Amount |-> total_equity],
           [Description |-> "Total Liabilities & Equity",
            Amount |-> total_liabilities + total_equity] >>

BalanceCheckLeq(total_assets, total_le) == Abs(total_assets - total_le) <= BS_EPS

\* line 231
BalanceCheck(total_assets, total_le) == Abs(total_assets - total_le) < BS_EPS

FirstAccountStepOverwrite(map, cat, i) ==
    [c \in DOMAIN map \cup {cat} |-> IF c = cat THEN i + 2 ELSE map[c]]

\* lines 255-258, i is the 0-based position of the row
FirstAccountStep(map, cat, i) ==
    IF cat \notin DOMAIN map
    THEN [c \in DOMAIN map \cup {cat} |-> IF c = cat THEN i + 2 ELSE map[c]]
    ELSE map

RECURSIVE FirstAccountMap(_, _)
\* lines 253-258: the map after the first n rows of df
FirstAccountMap(df, n) ==
    IF n = 0 THEN EmptyMap
    ELSE FirstAccountStep(FirstAccountMap(df, n - 1), df[n].Category, n - 1)

-----------------------------------------------------------------------------
(* The script *)

Init ==
    /\ mapping_file \in InitialFiles
    /\ session = "none"
    /\ chart_mapping = EmptyMap
    /\ uploaded_file = NoFile
    /\ schema_error = FALSE
    /\ validated = FALSE
    /\ total_debits = 0
    /\ total_credits = 0
    /\ dc_warning = FALSE
    /\ submitted = FALSE
    /\ generate_clicked = FALSE
    /\ trial_df = << >>
    /\ income_statement_df = << >>
    /\ balance_sheet_df = << >>
    /\ bs_balanced = FALSE
    /\ category_first_account_map = EmptyMap
    /\ excel_file = FALSE

NoValidation ==
    /\ validated' = FALSE
    /\ total_debits' = 0
    /\ total_credits' = 0
    /\ dc_warning' = FALSE

NoStatements ==
    /\ trial_df' = << >>
    /\ income_statement_df' = << >>
    /\ balance_sheet_df' = << >>
    /\ bs_balanced' = FALSE
    /\ category_first_account_map' = EmptyMap
    /\ excel_file' = FALSE

\* lines 184-270
Statements(rows, m) ==
    LET df == Classify(rows, m)
        sums == cat_sums(df)
        bs == BalanceSheet(sums)
    IN  /\ trial_df' = df
        /\ income_statement_df' = IncomeStatement(sums)
        /\ balance_sheet_df' = bs
        /\ bs_balanced' = BalanceCheck(bs[3].Amount, bs[7].Amount)
        /\ category_first_account_map' = FirstAccountMap(df, Len(df))
        /\ excel_file' = TRUE

\* lines 153-270: one run of the script with a file in the uploader; sel is
\* what the form widgets deliver, sub and gen are the two buttons' values
RunWithFile(file, sel, sub, gen) ==
    /\ uploaded_file' = file
    /\ IF ~SchemaOK(file.columns)
       THEN /\ schema_error' = TRUE
            /\ NoValidation
            /\ NoStatements
            /\ submitted' = FALSE
            /\ generate_clicked' = FALSE
            /\ UNCHANGED <<chart_mapping, mapping_file>>
       ELSE LET m == mapping_form(chart_mapping, file.rows, sel)
            IN  /\ schema_error' = FALSE
                /\ validated' = TRUE
                /\ total_debits' = SumDebit(file.rows)
                /\ total_credits' = SumCredit(file.rows)
                /\ dc_warning' = DebitCreditMismatch(SumDebit(file.rows), SumCredit(file.rows))
                /\ chart_mapping' = m
                /\ submitted' = sub
                /\ mapping_file' = FileAfterRun(mapping_file, m, sub)
                /\ generate_clicked' = gen
                /\ IF gen THEN Statements(file.rows, m) ELSE NoStatements

\* lines 153-158: the form and the Generate button are rendered in the else
\* branch, after the debit/credit message whichever it was
ButtonsRendered(file) == file # NoFile /\ SchemaOK(file.columns)

\* lines 16-21 and 153: the first run of a session, nothing uploaded yet
SessionStart ==
    /\ session = "none"
    /\ IF LoadRaises(mapping_file)
       THEN session' = "crashed" /\ UNCHANGED chart_mapping
       ELSE session' = "live" /\ chart_mapping' = LoadMapping(mapping_file)
    /\ UNCHANGED <<mapping_file, uploaded_file, schema_error, validated,
                   total_debits, total_credits, dc_warning, submitted,
                   generate_clicked, trial_df, income_statement_df,
                   balance_sheet_df, bs_balanced, category_first_account_map,
                   excel_file>>

\* the user puts a file into the empty uploader
Upload ==
    /\ session = "live"
    /\ uploaded_file = NoFile
    /\ \E file \in UploadableFiles : RunWithFile(file, EmptyMap, FALSE, FALSE)
    /\ UNCHANGED session

\* the user submits the form with "Save Mapping"
SaveMapping ==
    /\ session = "live"
    /\ ButtonsRendered(uploaded_file)
    /\ \E sel \in Selections(uploaded_file.rows) :
          RunWithFile(uploaded_file, sel, TRUE, FALSE)
    /\ UNCHANGED session

\* the user clicks "Generate Financial Statements"
Generate ==
    /\ session = "live"
    /\ ButtonsRendered(uploaded_file)
    /\ RunWithFile(uploaded_file, EmptyMap, FALSE, TRUE)
    /\ UNCHANGED session

\* the user removes the file from the uploader: line 153 skips everything
RemoveFile ==
    /\ session = "live"
    /\ uploaded_file # NoFile
    /\ uploaded_file' = NoFile
    /\ schema_error' = FALSE
    /\ NoValidation
    /\ submitted' = FALSE
    /\ generate_clicked' = FALSE
    /\ NoStatements
    /\ UNCHANGED <<session, chart_mapping, mapping_file>>

\* the browser session ends; st.session_state and the widgets are dropped
SessionEnd ==
    /\ session # "none"
    /\ session' = "none"
    /\ chart_mapping' = EmptyMap
    /\ uploaded_file' = NoFile
    /\ schema_error' = FALSE
    /\ NoValidation
    /\ submitted' = FALSE
    /\ generate_clicked' = FALSE
    /\ NoStatements
    /\ UNCHANGED mapping_file

Next == SessionStart \/ Upload \/ SaveMapping \/ Generate \/ RemoveFile \/ SessionEnd

Spec == Init /\ [][Next]_vars

-----------------------------------------------------------------------------
(* Properties.  The expected values are recomputed from the uploaded rows   *)
(* and the mapping, by set-based sums that do not go through the script's   *)
(* own aggregation.                                                         *)

BalanceSheetCategories == {"Current Assets", "Long-term Assets", "Current Liabilities",
                           "Long-term Liabilities", "Equity"}

RECURSIVE NetOver(_, _)
\* sum of debit - credit over the rows of the index set S
NetOver(rows, S) ==
    IF S = {} THEN 0
    ELSE LET i == CHOOSE x \in S : TRUE
         IN  (rows[i].debit - rows[i].credit) + NetOver(rows, S \ {i})

RECURSIVE FieldOver(_, _)
\* sum of the Amount column of df over the index set S
FieldOver(df, S) ==
    IF S = {} THEN 0
    ELSE LET i == CHOOSE x \in S : TRUE
         IN  df[i].Amount + FieldOver(df, S \ {i})

LedgerNet == NetOver(uploaded_file.rows, DOMAIN uploaded_file.rows)

RowCategory(i) == Get(chart_mapping, uploaded_file.rows[i].account, NaN)

RowsIn(cat) == {i \in DOMAIN uploaded_file.rows : RowCategory(i) = cat}

CategoryNet(cat) == NetOver(uploaded_file.rows, RowsIn(cat))

BalanceSheetRowsSum ==
    FieldOver(trial_df, {i \in DOMAIN trial_df : trial_df[i].Category \in BalanceSheetCategories})

\* C1 as stated: whenever statements are generated (every account then maps
\* to a category), the classified amounts over the Asset/Liability/Equity
\* categories add up to the ledger's total of debit - credit.
C1_ConservationAsStated ==
    generate_clicked => BalanceSheetRowsSum = LedgerNet

\* C1 amended: when every row of the ledger is classified into an
\* Asset/Liability/Equity category, the classified amounts over those
\* categories add up to the ledger's total of debit - credit.
C1_ConservationBalanceSheetOnly ==
    (generate_clicked /\ \A i \in DOMAIN trial_df : trial_df[i].Category \in BalanceSheetCategories)
        => BalanceSheetRowsSum = LedgerNet

C1_Witness ==
    /\ generate_clicked
    /\ Len(trial_df) >= 2
    /\ \A i \in DOMAIN trial_df : trial_df[i].Category \in BalanceSheetCategories
    /\ \E i, j \in DOMAIN trial_df : trial_df[i].Category # trial_df[j].Category
    /\ \E i \in DOMAIN trial_df : trial_df[i].credit > 0
    /\ LedgerNet # 0

\* C2: the income statement is the four items Revenue, Operating Expenses,
\* Non-Operating Expenses, Net Income in that order; each category amount is
\* the raw signed sum of debit - credit of its rows, and Net Income is
\* Revenue - (Operating Expenses + Non-Operating Expenses).
C2_IncomeStatement ==
    generate_clicked =>
        income_statement_df =
            << [Description |-> "Revenue", Amount |-> CategoryNet("Revenue")],
               [Description |-> "Operating Expenses", Amount |-> CategoryNet("Operating Expenses")],
               [Description |-> "Non-Operating Expenses",
                Amount |-> CategoryNet("Non-Operating Expenses")],
               [Description |-> "Net Income",
                Amount |-> CategoryNet("Revenue")
                           - (CategoryNet("Operating Expenses")
                              + CategoryNet("Non-Operating Expenses"))] >>

\* a single credit-only Operating Expenses row: its total is negative and
\* Net Income exceeds Revenue by the credited amount
C2_Witness ==
    /\ generate_clicked
    /\ Cardinality(RowsIn("Operating Expenses")) = 1
    /\ \A i \in RowsIn("Operating Expenses") :
          /\ uploaded_file.rows[i].debit = 0
          /\ uploaded_file.rows[i].credit > 0
          /\ income_statement_df[2].Amount = - uploaded_file.rows[i].credit
          /\ income_statement_df[4].Amount
                = income_statement_df[1].Amount + uploaded_file.rows[i].credit
    /\ RowsIn("Revenue") # {}

\* C3: the balance sheet is the seven items in order, Total Assets is Current
\* plus Long-term Assets, Total Liabilities & Equity is Current Liabilities
\* plus Long-term Liabilities plus Equity, and it is reported balanced exactly
\* when |Total Assets - Total Liabilities & Equity| < 1e-6; the empty ledger
\* is reported balanced with all totals 0.
C3_BalanceSheet ==
    generate_clicked =>
        LET ta == CategoryNet("Current Assets") + CategoryNet("Long-term Assets")
            tle == CategoryNet("Current Liabilities") + CategoryNet("Long-term Liabilities")
                   + CategoryNet("Equity")
        IN  /\ balance_sheet_df =
                << [Description |-> "Current Assets", Amount |-> CategoryNet("Current Assets")],
                   [Description |-> "Long-term Assets", Amount |-> CategoryNet("Long-term Assets")],
                   [Description |-> "Total Assets", Amount |-> ta],
                   [Description |-> "Current Liabilities",
                    Amount |-> CategoryNet("Current Liabilities")],
                   [Description |-> "Long-term Liabilities",
                    Amount |-> CategoryNet("Long-term Liabilities")],
                   [Description |-> "Equity", Amount |-> CategoryNet("Equity")],
                   [Description |-> "Total Liabilities & Equity", Amount |-> tle] >>
            /\ bs_balanced <=> (ta - tle < BS_EPS /\ tle - ta < BS_EPS)
            /\ (ta - tle = BS_EPS \/ tle - ta = BS_EPS) => ~bs_balanced
            /\ uploaded_file.rows = << >> => (bs_balanced /\ ta = 0 /\ tle = 0)

\* the difference is exactly the tolerance and the sheet is reported unbalanced
C3_Witness ==
    /\ generate_clicked
    /\ Len(uploaded_file.rows) >= 2
    /\ balance_sheet_df[3].Amount # 0
    /\ balance_sheet_df[7].Amount # 0
    /\ Abs(balance_sheet_df[3].Amount - balance_sheet_df[7].Amount) = BS_EPS
    /\ ~bs_balanced

\* C4: the cross-reference has exactly the categories that have a ledger row,
\* each mapped to (0-based position of its first row) + 2; later rows of a
\* category, contiguous or not, do not change its entry.
C4_CrossReference ==
    generate_clicked =>
        /\ DOMAIN category_first_account_map = {RowCategory(i) : i \in DOMAIN uploaded_file.rows}
        /\ \A c \in DOMAIN category_first_account_map :
              \E i \in RowsIn(c) :
                  /\ \A j \in RowsIn(c) : i <= j
                  /\ category_first_account_map[c] = (i - 1) + 2
        /\ uploaded_file.rows = << >> => category_first_account_map = EmptyMap

\* rows 1 and 3 share a category, row 2 has another one
C4_Witness ==
    /\ generate_clicked
    /\ Len(uploaded_file.rows) = 3
    /\ RowCategory(1) = RowCategory(3)
    /\ RowCategory(1) # RowCategory(2)
    /\ category_first_account_map[RowCategory(1)] = 2
    /\ category_first_account_map[RowCategory(2)] = 3

\* C5: in every script run over a well-formed upload, an account that has no
\* entry in the mapping before the run and that the user does not select for
\* is mapped to the first category, Current Assets; and at generation every
\* row carries the category its account is mapped to, one of the eight.
C5_UnmappedDefault ==
    [][ /\ (session' = "live" /\ uploaded_file' # NoFile
              /\ required_columns \subseteq uploaded_file'.columns)
            => \A i \in DOMAIN uploaded_file'.rows :
                  LET a == uploaded_file'.rows[i].account
                  IN  /\ a \in DOMAIN chart_mapping'
                      /\ a \notin DOMAIN chart_mapping => chart_mapping'[a] = "Current Assets"
        /\ generate_clicked'
            => /\ Len(trial_df') = Len(uploaded_file'.rows)
               /\ \A i \in DOMAIN trial_df' :
                     /\ trial_df'[i].Category \in CategorySet
                     /\ trial_df'[i].Category
                           = Get(chart_mapping', uploaded_file'.rows[i].account, NaN)
      ]_vars

\* an account the stored mapping does not know is classified as Current Assets
C5_Witness ==
    /\ generate_clicked
    /\ "B" \notin DOMAIN mapping_file.content
    /\ \E i \in DOMAIN trial_df :
          trial_df[i].account = "B" /\ trial_df[i].Category = "Current Assets"

\* C6: a run over an upload that lacks a required column reports the schema
\* error and produces no validation totals, no mapping edit, no save, no
\* statement and no cross-reference; a run over a well-formed upload is
\* validated, and a generation produces the classified ledger, both
\* statements, the cross-reference and the workbook together, whatever the
\* two warnings say.
C6_AllOrNothing ==
    [][ /\ (uploaded_file' # NoFile /\ ~(required_columns \subseteq uploaded_file'.columns))
            => /\ schema_error'
               /\ ~validated' /\ total_debits' = 0 /\ total_credits' = 0 /\ ~dc_warning'
               /\ ~submitted' /\ ~generate_clicked'
               /\ chart_mapping' = chart_mapping
               /\ mapping_file' = mapping_file
        /\ (uploaded_file' # NoFile /\ required_columns \subseteq uploaded_file'.columns)
            => (~schema_error' /\ validated')
        /\ generate_clicked'
            => /\ ~schema_error'
               /\ Len(trial_df') = Len(uploaded_file'.rows)
               /\ Len(income_statement_df') = 4
               /\ Len(balance_sheet_df') = 7
               /\ DOMAIN category_first_account_map'
                     = {trial_df'[i].Category : i \in DOMAIN trial_df'}
               /\ excel_file'
        /\ ~generate_clicked'
            => /\ trial_df' = << >>
               /\ income_statement_df' = << >>
               /\ balance_sheet_df' = << >>
               /\ category_first_account_map' = EmptyMap
               /\ ~excel_file'
      ]_vars

\* a generation that raised both warnings and still produced everything
C6_Witness ==
    /\ generate_clicked
    /\ dc_warning
    /\ ~bs_balanced
    /\ Len(income_statement_df) = 4
    /\ Len(balance_sheet_df) = 7
    /\ category_first_account_map # EmptyMap
    /\ excel_file

\* C7: the debit/credit warning is raised exactly when
\* |total debits - total credits| > 1e-6 (a difference of exactly 1e-6 is
\* balanced); with the warning raised, saving and generating stay available,
\* a save writes the mapping and a generation produces the statements.
C7_DebitCreditWarning ==
    /\ validated =>
          LET d == total_debits - total_credits
          IN  /\ dc_warning <=> (d > DC_EPS \/ d < -DC_EPS)
              /\ (d = DC_EPS \/ d = -DC_EPS) => ~dc_warning
              /\ d = LedgerNet
    /\ dc_warning =>
          /\ session = "live"
          /\ ButtonsRendered(uploaded_file)
          /\ submitted => mapping_file = [exists |-> TRUE, readable |-> TRUE,
                                          content |-> chart_mapping]
          /\ generate_clicked => (excel_file /\ Len(income_statement_df) = 4
                                             /\ Len(balance_sheet_df) = 7)

\* statements generated from a ledger whose warning was raised
C7_Witness ==
    /\ dc_warning
    /\ generate_clicked
    /\ excel_file
    /\ total_debits - total_credits > DC_EPS

\* C8: the mapping file changes only in a run in which the Save Mapping
\* button was pressed.
C8_ExplicitSaveOnly ==
    [][mapping_file' # mapping_file => submitted']_vars

\* a save wrote a mapping that the file did not hold at first, and the
\* in-memory mapping has since been extended without another write
C8_Witness ==
    /\ mapping_file.exists
    /\ mapping_file.readable
    /\ mapping_file.content \notin StoredMappings
    /\ ~submitted
    /\ chart_mapping # mapping_file.content

\* C9: the first run of a session never fails: it leaves the session live
\* with the stored mapping if the file is present and readable, and with the
\* empty mapping if it is absent or unreadable.
C9_LoadNeverFails ==
    [][ (session = "none" /\ session' # "none")
            => /\ session' = "live"
               /\ chart_mapping' = IF mapping_file.exists /\ mapping_file.readable
                                   THEN mapping_file.content ELSE EmptyMap
      ]_vars

\* C10: at generation every row carries one of the eight categories, and the
\* eight category totals add up to the ledger's total of debit - credit,
\* which is total debits - total credits of the validator.
C10_TotalConservation ==
    generate_clicked =>
        /\ \A i \in DOMAIN trial_df : trial_df[i].Category \in CategorySet
        /\ income_statement_df[1].Amount + income_statement_df[2].Amount
             + income_statement_df[3].Amount
             + balance_sheet_df[1].Amount + balance_sheet_df[2].Amount
             + balance_sheet_df[4].Amount + balance_sheet_df[5].Amount
             + balance_sheet_df[6].Amount
           = LedgerNet
        /\ LedgerNet = total_debits - total_credits

\* the stored mapping gave account A a label outside the eight categories
C10_Witness ==
    /\ generate_clicked
    /\ "A" \in DOMAIN mapping_file.content
    /\ mapping_file.content["A"] \notin CategorySet
    /\ \E i \in DOMAIN trial_df : trial_df[i].account = "A"
    /\ \E i \in DOMAIN trial_df : trial_df[i].account = "B"
    /\ LedgerNet # 0

====
